---- MODULE Spec2Model ----
(***************************************************************************)
(* Grocery purchase assistant: the translation-memory cache                *)
(* (file_trans.py), the batch translator (file_trans.py) and the purchase  *)
(* mapping engine (map_purchases.py).                                      *)
(*                                                                         *)
(* A cell of a pandas DataFrame is a record [t, v]: t is the Python type   *)
(* of the value ("str", "int", "float") and v its text as to_csv writes    *)
(* it, except NaN, the float that to_csv writes as the empty field.  A CSV *)
(* file on disk is a sequence of rows of plain texts.                      *)
(***************************************************************************)
EXTENDS Integers, Sequences, FiniteSets, TLC

VARIABLES
    memory_file,    \* product_translation_memory.csv: [exists, rows of texts]
    memory_map,     \* the dict load_translation_memory last returned
    hist,           \* the last cache operation: [op, E, before]
    calls,          \* cache operations run so far
    text_list,      \* translate_text_batch: its argument
    unique_texts,   \* translate_text_batch: list(set(...)), as its batches
    translation_map,\* translate_text_batch: the dict built so far
    batch_start,    \* translate_text_batch: the loop variable i
    pcT,            \* translate_text_batch: "idle", "start", "loop", "done"
    result,         \* translate_text_batch: the list returned
    batch_log,      \* the calls of translator.translate_batch: [batch, ok]
    sheet,          \* the ledger: rows [product_original, store, id, ids]
    worksheet,      \* the ledger: [header row, columns add_cols has added]
    edits,          \* edits of the ledger made by a person
    db_choices,     \* run_mapping_pipeline: the catalog titles with their ids
    df_sheet,       \* run_mapping_pipeline: the ledger rows as the run read them
    wratio,         \* fuzz.WRatio, for the names scored so far: name -> title -> score
    known_mappings, \* run_mapping_pipeline: product name -> [id, ids]
    to_process_indices, \* run_mapping_pipeline: the rows selected
    pos,            \* run_mapping_pipeline: place in to_process_indices
    updates,        \* run_mapping_pipeline: the staged cell writes
    matches,        \* run_mapping_pipeline: what find_best_matches last returned
    pcM,            \* run_mapping_pipeline: "idle", "start", "loop", "done"
    row_log,        \* the rows the loop has handled: [idx, name, how, table]
    runs,           \* runs of run_mapping_pipeline started after the first
    resolved,       \* row -> [how, id, ids]: the state a saved run first gave the row
    site,           \* www.ah.nl: for each category, the ids of its products
    master_data,    \* scrape_ah_final: the items collected so far
    aisle_idx,      \* scrape_ah_final: place in the loop over the categories
    export,         \* scrape_ah_final: [written, rows of df_unique]
    pcA,            \* scrape_ah_final: "idle", "scrape", "done"
    pcR,            \* run.py main: the step it is at
    lidl_file,      \* main: the file of the Lidl scrape, or NoFile
    ah_export_file, \* main: the export of the Albert Heijn scrape, or NoFile
    ah_summary_file,\* main: the summary of the Albert Heijn scrape, or NoFile
    stage_log       \* main: the stages started and how each ended

cacheVars == <<memory_file, memory_map, hist, calls>>
trVars == <<text_list, unique_texts, translation_map, batch_start, pcT, result,
            batch_log>>
mapVars == <<sheet, worksheet, edits, db_choices, df_sheet, wratio, known_mappings, to_process_indices, pos, updates,
             matches, pcM, row_log, runs, resolved>>
ahVars == <<site, master_data, aisle_idx, export, pcA>>
mainVars == <<pcR, lidl_file, ah_export_file, ah_summary_file, stage_log>>
vars == <<memory_file, memory_map, hist, calls, text_list, unique_texts,
          translation_map, batch_start, pcT, result, batch_log, sheet, worksheet,
          edits, db_choices,
          df_sheet,
          wratio,
          known_mappings, to_process_indices, pos, updates, matches, pcM, row_log,
          runs, resolved, site, master_data, aisle_idx, export, pcA, pcR, lidl_file,
          ah_export_file, ah_summary_file, stage_log>>

(***************************************************************************)
(* Bounds of the model.                                                    *)
(***************************************************************************)
MaxStoreRows == 2       \* rows of the store the first run finds
MaxNewRows == 2         \* rows of new_entries_df in a direct merge
MaxExportRows == 2      \* rows of the daily export
MaxCalls == 2           \* cache operations in one behaviour
MaxLoadRows == 3        \* rows of the store in the specification of load()
MaxSmall == 2           \* distinct words of a short input list
MaxOver == 1            \* distinct words beyond BATCH_SIZE of a long input list
MaxExtra == 2           \* other items put around the words of an input list
MaxRows == 2            \* rows of the ledger
MaxItems == 4           \* products collected by a scrape
MaxReruns == 1          \* runs of the mapping pipeline after the first
MaxEdits == 1           \* edits a person makes to the ledger

(***************************************************************************)
(* Cells.                                                                  *)
(***************************************************************************)
Str(s) == [t |-> "str", v |-> s]
NaN == [t |-> "float", v |-> "nan"]
IsStr(c) == c.t = "str"

\* The texts pandas.read_csv reads as missing (its default na_values).
NA_VALUES ==
    {"", "#N/A", "#N/A N/A", "#NA", "-1.#IND", "-1.#QNAN", "-NaN", "-nan",
     "1.#IND", "1.#QNAN", "<NA>", "N/A", "NA", "NULL", "NaN", "None", "n/a",
     "nan", "null"}

\* The texts of the model's universe that parse as integers, with the
\* integer's decimal text (leading zeros are not kept).
IntValue == ("1" :> "1") @@ ("2" :> "2")

IsIntText(s) == s \in DOMAIN IntValue
\* str() / to_csv of the float with that integer value.
FloatRepr(s) == IntValue[s] \o ".0"
IsFloatText(s) == s \in {FloatRepr(x) : x \in DOMAIN IntValue}
IsNumText(s) == IsIntText(s) \/ IsFloatText(s)
AsFloat(s) == IF IsIntText(s) THEN FloatRepr(s) ELSE s

\* read_csv of one column with no dtype given: int64 when every field is an
\* integer, float64 when every present field is a number, else object with
\* the texts kept; a missing field is NaN.
InferColumn(col) ==
    LET present == {k \in DOMAIN col : col[k] \notin NA_VALUES}
    IN  IF \A k \in present : IsNumText(col[k])
        THEN IF present = DOMAIN col /\ \A k \in present : IsIntText(col[k])
             THEN [k \in DOMAIN col |-> [t |-> "int", v |-> IntValue[col[k]]]]
             ELSE [k \in DOMAIN col |->
                      IF k \in present
                      THEN [t |-> "float", v |-> AsFloat(col[k])]
                      ELSE NaN]
        ELSE [k \in DOMAIN col |-> IF k \in present THEN Str(col[k]) ELSE NaN]

\* read_csv of a column with dtype str: texts kept, a missing field is NaN.
StrColumn(col) ==
    [k \in DOMAIN col |-> IF col[k] \in NA_VALUES THEN NaN ELSE Str(col[k])]

\* pd.read_csv(MEMORY_FILE, dtype={'id': str})
read_csv(rows) ==
    LET ids == StrColumn([k \in DOMAIN rows |-> rows[k].id])
        nl == InferColumn([k \in DOMAIN rows |-> rows[k].dutch_title])
        en == InferColumn([k \in DOMAIN rows |-> rows[k].english_title])
    IN  [k \in DOMAIN rows |->
            [id |-> ids[k], dutch_title |-> nl[k], english_title |-> en[k]]]

\* to_csv of one cell: NaN is written as the empty field.
Fmt(c) == IF c = NaN THEN "" ELSE c.v

\* df.to_csv(MEMORY_FILE, index=False)
to_csv(df) ==
    [k \in DOMAIN df |->
        [id |-> Fmt(df[k].id), dutch_title |-> Fmt(df[k].dutch_title),
         english_title |-> Fmt(df[k].english_title)]]

RECURSIVE Pick(_, _, _)
\* The rows of df whose index is in keep, in order, from index k on.
Pick(df, keep, k) ==
    IF k > Len(df) THEN <<>>
    ELSE (IF k \in keep THEN <<df[k]>> ELSE <<>>) \o Pick(df, keep, k + 1)

\* df.drop_duplicates(subset=['id'], keep='last')
drop_duplicates_last(df) ==
    Pick(df, {k \in DOMAIN df : \A j \in DOMAIN df : j > k => df[j].id # df[k].id}, 1)

\* df.drop_duplicates(subset=['id'])  (keep='first')
drop_duplicates_first(df) ==
    Pick(df, {k \in DOMAIN df : \A j \in DOMAIN df : j < k => df[j].id # df[k].id}, 1)

\* pd.Series(df.english_title.values, index=df.id).to_dict()
to_dict(df) ==
    [i \in {df[k].id : k \in DOMAIN df} |->
        df[CHOOSE k \in DOMAIN df :
              /\ df[k].id = i
              /\ \A j \in DOMAIN df : df[j].id = i => j <= k].english_title]

Absent == [exists |-> FALSE, rows |-> <<>>]
File(rows) == [exists |-> TRUE, rows |-> rows]
EmptyMap == [i \in {} |-> NaN]

(***************************************************************************)
(* load_translation_memory: the file after the call and the dict returned. *)
(***************************************************************************)
\* Mutant of LoadFile: the cleaned DataFrame is not saved back.
LoadFile_NoRewrite(f) ==
    IF ~f.exists THEN File(<<>>) ELSE f

LoadFile(f) ==
    IF ~f.exists THEN File(<<>>)
    ELSE LET df == read_csv(f.rows)
             dd == drop_duplicates_last(df)
         IN  IF Len(dd) < Len(df) THEN File(to_csv(dd)) ELSE f

LoadMap(f) ==
    IF ~f.exists THEN EmptyMap
    ELSE to_dict(drop_duplicates_last(read_csv(f.rows)))

(***************************************************************************)
(* update_memory_safely(new_entries_df): the file after the call.          *)
(***************************************************************************)
MergeFile(f, E) ==
    IF E = <<>> THEN f
    ELSE LET existing_df == IF f.exists THEN read_csv(f.rows) ELSE <<>>
             combined_df == existing_df \o E
             deduped_df == drop_duplicates_last(combined_df)
         IN  File(to_csv(deduped_df))

(***************************************************************************)
(* translate_text_batch.                                                   *)
(***************************************************************************)
BATCH_SIZE == 50

\* str.strip() on the texts of the model's universe that carry whitespace.
Strip(s) ==
    CASE s = " " -> ""
      [] s = " melk " -> "melk"
      [] OTHER -> s

\* GoogleTranslator(source='nl', target='en'): the service's answer for one
\* text of a batch that succeeds.
Translate(s) == s \o "_en"

\* isinstance(t, str) and t.strip()
Kept(t) == IsStr(t) /\ Strip(t.v) # ""

Min(a, b) == IF a < b THEN a ELSE b

\* set([t for t in text_list if isinstance(t, str) and t.strip()])
UniqueTexts(texts) == {texts[k].v : k \in {j \in DOMAIN texts : Kept(texts[j])}}

RECURSIVE Subsets(_, _)
\* The subsets of S that have k elements.
Subsets(S, k) ==
    IF k = 0 THEN {{}}
    ELSE UNION {{T \cup {x} : x \in S \ T} : T \in Subsets(S, k - 1)}

\* The sets of texts that some order of the set S has in its first k places.
FirstTexts(S, k) ==
    IF 2 * k <= Cardinality(S) THEN Subsets(S, k)
    ELSE {S \ T : T \in Subsets(S, Cardinality(S) - k)}

RECURSIVE Batches(_)
\* The slices [i : i + BATCH_SIZE] of the orders of the set S, each slice held
\* as the set of its texts.
Batches(S) ==
    IF S = {} THEN {<<>>}
    ELSE IF Cardinality(S) <= BATCH_SIZE THEN {<<S>>}
    ELSE UNION {{<<B>> \o rest : rest \in Batches(S \ B)} :
                   B \in FirstTexts(S, BATCH_SIZE)}

\* list(set(...)): the order of a set's elements is not fixed by the code, and
\* every order is possible.  The function uses the list only through its
\* slices, and a slice only through the texts in it (the dict filled from a
\* slice is the same for every order of the slice), so the list is held as
\* the sequence of its slices, each the set of its texts.  Every order of the
\* set is one of these values, and each value stands for the orders that give
\* it.
UniqueOrders(texts) == Batches(UniqueTexts(texts))

\* len(unique_texts)
LenUnique(uniq) ==
    IF uniq = <<>> THEN 0
    ELSE (Len(uniq) - 1) * BATCH_SIZE + Cardinality(uniq[Len(uniq)])

\* uniq[i : i + BATCH_SIZE], the set of its texts.
BatchAt(uniq, i) == uniq[(i \div BATCH_SIZE) + 1]

\* Mutant of ApplyBatch: a failed call starts the dict over.
ApplyBatch_Reset(tmap, batch, ok) ==
    IF ok
    THEN [s \in DOMAIN tmap \cup batch |->
             IF s \in batch THEN Translate(s) ELSE tmap[s]]
    ELSE [s \in batch |-> s]

\* One pass of the loop body over a batch: the translations when the call
\* succeeds, every item mapped to itself when it raises.
ApplyBatch(tmap, batch, ok) ==
    [s \in DOMAIN tmap \cup batch |->
        IF s \in batch
        THEN (IF ok THEN Translate(s) ELSE s)
        ELSE tmap[s]]

\* Mutant of MapBack: the non-strings are filtered out of the output.
MapBack_StringsOnly(texts, tmap) ==
    LET strs == SelectSeq(texts, IsStr)
    IN  [k \in DOMAIN strs |->
            IF strs[k].v \in DOMAIN tmap
            THEN Str(tmap[strs[k].v])
            ELSE strs[k]]

\* [tmap.get(t, t) if isinstance(t, str) else t for t in texts]
MapBack(texts, tmap) ==
    [k \in DOMAIN texts |->
        IF IsStr(texts[k]) /\ texts[k].v \in DOMAIN tmap
        THEN Str(tmap[texts[k].v])
        ELSE texts[k]]

EmptyTranslations == [s \in {} |-> ""]

RECURSIVE RunBatches(_, _, _, _)
\* for i in range(0, len(uniq), BATCH_SIZE): ...
RunBatches(uniq, outcomes, i, tmap) ==
    IF i >= LenUnique(uniq) THEN tmap
    ELSE RunBatches(uniq, outcomes, i + BATCH_SIZE,
                    ApplyBatch(tmap, BatchAt(uniq, i),
                               outcomes[(i \div BATCH_SIZE) + 1]))

\* The whole call, for one order of the set and one outcome per batch call.
translate_text_batch(texts, uniq, outcomes) ==
    IF uniq = <<>> THEN texts
    ELSE MapBack(texts, RunBatches(uniq, outcomes, 0, EmptyTranslations))

(***************************************************************************)
(* process_ah_export.                                                      *)
(***************************************************************************)
\* str(x) of a cell, as df_daily['id'].astype(str) gives it.
AsTypeStr(c) == Str(IF c = NaN THEN "nan" ELSE c.v)

\* pd.read_csv(filename) of the daily export, then df_daily['id'].astype(str).
ReadExport(rows) ==
    LET ids == InferColumn([k \in DOMAIN rows |-> rows[k].id])
        titles == InferColumn([k \in DOMAIN rows |-> rows[k].title])
    IN  [k \in DOMAIN rows |-> [id |-> AsTypeStr(ids[k]), title |-> titles[k]]]

\* new_products[['id', 'title']].drop_duplicates(subset=['id']) of the rows
\* whose id is not a key of memory_map.
UniqueNew(df_daily, map) ==
    drop_duplicates_first(
        Pick(df_daily, {k \in DOMAIN df_daily : df_daily[k].id \notin DOMAIN map}, 1))

\* new_memory: the DataFrame handed to update_memory_safely.
NewMemory(unique_new, titles_en) ==
    [k \in DOMAIN unique_new |->
        [id |-> unique_new[k].id, dutch_title |-> unique_new[k].title,
         english_title |-> titles_en[k]]]

\* memory_map.update(new_map)
MapUpdate(map, E) ==
    LET new_map == to_dict(E)
    IN  [i \in DOMAIN map \cup DOMAIN new_map |->
            IF i \in DOMAIN new_map THEN new_map[i] ELSE map[i]]

(***************************************************************************)
(* The universe of the cache model.                                        *)
(***************************************************************************)
IdTexts == {"1", "2", "nan"}
EnglishTexts == {"milk", "cheese"}
StoredEnglishTexts == {"milk", "NA"}

SeqsUpTo(S, n) == UNION {[1..m -> S] : m \in 0..n}

StoreRows == [id : IdTexts, dutch_title : {"melk"}, english_title : StoredEnglishTexts]
NewRows ==
    [id : {Str(i) : i \in IdTexts}, dutch_title : {Str("melk")},
     english_title : {Str(e) : e \in EnglishTexts}]
\* The products of the daily export: a product keeps its title from one
\* export to the next; the third one came without an id.
ExportRows ==
    {[id |-> "1", title |-> "melk"], [id |-> "2", title |-> "kaas"],
     [id |-> "", title |-> "brood"]}

Op(op, E, before) == [op |-> op, E |-> E, before |-> before]

\* A stage that produced no file.
NoFile == "None"

\* main at rest, in the specifications that do not run it.
MainIdle ==
    /\ pcR = "idle"
    /\ lidl_file = NoFile
    /\ ah_export_file = NoFile
    /\ ah_summary_file = NoFile
    /\ stage_log = <<>>

\* The Albert Heijn scraper at rest, in the specifications that do not run it.
AhIdle ==
    /\ site = <<>>
    /\ master_data = <<>>
    /\ aisle_idx = 0
    /\ export = [written |-> FALSE, rows |-> <<>>]
    /\ pcA = "idle"

\* The mapping engine at rest, in the specifications that do not run it.
MapIdle ==
    /\ sheet = <<>>
    /\ worksheet = [header |-> <<"product_original", "store", "id", "ids">>, added |-> 0]
    /\ edits = 0
    /\ db_choices = <<>>
    /\ df_sheet = <<>>
    /\ wratio = <<>>
    /\ known_mappings = <<>>
    /\ to_process_indices = <<>>
    /\ pos = 0
    /\ updates = <<>>
    /\ matches = <<>>
    /\ pcM = "idle"
    /\ row_log = <<>>
    /\ runs = 0
    /\ resolved = <<>>

\* The translator at rest, in the specifications that do not step through it.
TrIdle ==
    /\ text_list = <<>>
    /\ unique_texts = <<>>
    /\ translation_map = EmptyTranslations
    /\ batch_start = 0
    /\ pcT = "idle"
    /\ result = <<>>
    /\ batch_log = <<>>

InitCache ==
    /\ memory_file \in {Absent} \cup {File(r) : r \in SeqsUpTo(StoreRows, MaxStoreRows)}
    /\ memory_map = EmptyMap
    /\ hist = Op("init", <<>>, Absent)
    /\ calls = 0
    /\ TrIdle
    /\ MapIdle
    /\ AhIdle
    /\ MainIdle

\* load_translation_memory()
Load ==
    /\ calls < MaxCalls
    /\ calls' = calls + 1
    /\ memory_file' = LoadFile(memory_file)
    /\ memory_map' = LoadMap(memory_file)
    /\ hist' = Op("load", <<>>, memory_file)
    /\ UNCHANGED <<trVars, mapVars, ahVars, mainVars>>

\* update_memory_safely(E), E not empty; "merge2" when it repeats the call
\* before it.
Merge ==
    \E E \in SeqsUpTo(NewRows, MaxNewRows) \ {<<>>} :
        /\ calls < MaxCalls
        /\ calls' = calls + 1
        /\ memory_file' = MergeFile(memory_file, E)
        /\ hist' = Op(IF hist.op = "merge" /\ hist.E = E THEN "merge2" ELSE "merge",
                      E, memory_file)
        /\ UNCHANGED memory_map
        /\ UNCHANGED <<trVars, mapVars, ahVars, mainVars>>

\* process_ah_export(filename) on an export file that holds the given rows:
\* what it does to the translation memory.
ProcessExport(rows) ==
    LET df_daily == ReadExport(rows)
        loaded == LoadFile(memory_file)
        map == LoadMap(memory_file)
        unique_new == UniqueNew(df_daily, map)
        titles_nl == [k \in DOMAIN unique_new |-> unique_new[k].title]
    IN  \E uniq \in UniqueOrders(titles_nl) :
        \E outcomes \in [1..Len(uniq) -> BOOLEAN] :
            LET titles_en == translate_text_batch(titles_nl, uniq, outcomes)
                new_memory == NewMemory(unique_new, titles_en)
            IN  /\ calls' = calls + 1
                /\ memory_file' = MergeFile(loaded, new_memory)
                /\ memory_map' = IF unique_new = <<>> THEN map
                                 ELSE MapUpdate(map, new_memory)
                /\ hist' = Op("export", new_memory, memory_file) @@ [rows |-> rows]

\* process_ah_export(filename) on an export file that exists.
ProcessAhExport ==
    /\ calls < MaxCalls
    /\ \E rows \in SeqsUpTo(ExportRows, MaxExportRows) : ProcessExport(rows)
    /\ UNCHANGED <<trVars, mapVars, ahVars, mainVars>>

Next == Load \/ Merge \/ ProcessAhExport

Spec == InitCache /\ [][Next]_vars

\* load_translation_memory alone, on every store of up to MaxLoadRows rows.
InitLoad ==
    /\ memory_file \in {Absent} \cup {File(r) : r \in SeqsUpTo(StoreRows, MaxLoadRows)}
    /\ memory_map = EmptyMap
    /\ hist = Op("init", <<>>, Absent)
    /\ calls = 0
    /\ TrIdle
    /\ MapIdle
    /\ AhIdle
    /\ MainIdle

SpecLoad == InitLoad /\ [][Load]_vars

(***************************************************************************)
(* The store as the program reads it: every reader of MEMORY_FILE uses     *)
(* pd.read_csv(MEMORY_FILE, dtype={'id': str}), so two files hold the same *)
(* store when they read the same, and a row's identifier is its id cell as *)
(* read.                                                                   *)
(***************************************************************************)
Stored(f) == read_csv(f.rows)
IdsOf(df) == {df[k].id : k \in DOMAIN df}
\* The identifier an in-memory id cell is stored under.
StoredId(c) == StrColumn(<<Fmt(c)>>)[1]
\* The english_title of the last row of df with identifier i.
LastText(df, i) ==
    df[CHOOSE k \in DOMAIN df :
          /\ df[k].id = i
          /\ \A j \in DOMAIN df : df[j].id = i => j <= k].english_title
OneRowPerId(df) == \A j, k \in DOMAIN df : j # k => df[j].id # df[k].id

\* C1: merge is idempotent: the store after merge(E) followed by merge(E)
\* again equals the store after the first merge(E).
C1_MergeIdempotent ==
    hist.op = "merge2" => Stored(memory_file) = Stored(hist.before)

\* C2: merge is last-write-wins and a full rewrite: after merge(E) on store
\* S the store holds, for every identifier of the rows of S followed by the
\* rows of E, one row with the text of the last entry for that identifier,
\* and nothing else.
C2_LastWriteWins ==
    hist.op \in {"merge", "merge2"} =>
        LET entries == Stored(hist.before) \o
                       [k \in DOMAIN hist.E |->
                           [hist.E[k] EXCEPT !.id = StoredId(hist.E[k].id)]]
            after == Stored(memory_file)
        IN  /\ IdsOf(after) = IdsOf(entries)
            /\ OneRowPerId(after)
            /\ \A k \in DOMAIN after :
                   after[k].english_title = LastText(entries, after[k].id)

\* C3: at the end of every pipeline invocation (a load followed by at most
\* one merge) the persisted store has at most one row per identifier.
C3_OneRowPerIdentifier ==
    hist.op \in {"load", "export"} => OneRowPerId(Stored(memory_file))

\* C4: after load() the in-memory map has one entry per identifier of the
\* store and the store on disk holds exactly the map's pairs; an absent
\* store is created empty and gives the empty map; duplicates are collapsed
\* to the most recently written row per identifier and the file rewritten.
C4_LoadDedup ==
    hist.op = "load" =>
        LET disk == Stored(memory_file)
            was == Stored(hist.before)
        IN  /\ memory_file.exists
            /\ ~hist.before.exists => memory_file.rows = <<>> /\ memory_map = EmptyMap
            /\ Len(disk) = Cardinality(DOMAIN memory_map)
            /\ \A k \in DOMAIN disk :
                   /\ disk[k].id \in DOMAIN memory_map
                   /\ memory_map[disk[k].id] = disk[k].english_title
            /\ DOMAIN memory_map = IdsOf(was)
            /\ \A i \in IdsOf(was) : memory_map[i] = LastText(was, i)

\* C4 witness: a load that found duplicate identifiers and rewrote the file.
C4_Witness ==
    /\ hist.op = "load"
    /\ Len(memory_file.rows) < Len(hist.before.rows)
    /\ Len(memory_file.rows) >= 2

(***************************************************************************)
(* translate_text_batch, one step per batch call.                          *)
(***************************************************************************)
Word(n) == "w" \o ToString(n)
Words(n) == [k \in 1..n |-> Str(Word(k))]

\* Items other than fresh words: an empty and a whitespace-only string, a
\* non-string, a repeat of the first word, a word with spaces around it.
Extras == {Str(""), Str(" "), NaN, Str(Word(1)), Str(" melk ")}

InputLists ==
    {extra \o Words(n) \o extra :
        n \in (0..MaxSmall) \cup ((BATCH_SIZE - 1)..(BATCH_SIZE + MaxOver)),
        extra \in SeqsUpTo(Extras, MaxExtra)}

CacheIdle ==
    /\ memory_file = Absent
    /\ memory_map = EmptyMap
    /\ hist = Op("init", <<>>, Absent)
    /\ calls = 0

InitTranslate ==
    /\ text_list \in InputLists
    /\ unique_texts = <<>>
    /\ translation_map = EmptyTranslations
    /\ batch_start = 0
    /\ pcT = "start"
    /\ result = <<>>
    /\ batch_log = <<>>
    /\ CacheIdle
    /\ MapIdle
    /\ AhIdle
    /\ MainIdle

\* if not unique_texts: return text_list
TrReturnEarly ==
    /\ pcT = "start"
    /\ UniqueTexts(text_list) = {}
    /\ result' = text_list
    /\ pcT' = "done"
    /\ UNCHANGED <<text_list, unique_texts, translation_map, batch_start, batch_log>>
    /\ UNCHANGED <<cacheVars, mapVars, ahVars, mainVars>>

\* unique_texts = list(set(...)), not empty: enter the loop.
TrStart ==
    /\ pcT = "start"
    /\ \E u \in UniqueOrders(text_list) :
        /\ u # <<>>
        /\ unique_texts' = u
    /\ batch_start' = 0
    /\ pcT' = "loop"
    /\ UNCHANGED <<text_list, translation_map, result, batch_log>>
    /\ UNCHANGED <<cacheVars, mapVars, ahVars, mainVars>>

\* One pass of the loop: translator.translate_batch(batch) returns or raises.
TrBatch ==
    /\ pcT = "loop"
    /\ batch_start < LenUnique(unique_texts)
    /\ \E ok \in BOOLEAN :
        LET batch == BatchAt(unique_texts, batch_start)
        IN  /\ translation_map' = ApplyBatch(translation_map, batch, ok)
            /\ batch_log' = Append(batch_log, [batch |-> batch, ok |-> ok])
    /\ batch_start' = batch_start + BATCH_SIZE
    /\ UNCHANGED <<text_list, unique_texts, pcT, result>>
    /\ UNCHANGED <<cacheVars, mapVars, ahVars, mainVars>>

\* The loop is over: map back to the original list and return.
TrReturn ==
    /\ pcT = "loop"
    /\ batch_start >= LenUnique(unique_texts)
    /\ result' = MapBack(text_list, translation_map)
    /\ pcT' = "done"
    /\ UNCHANGED <<text_list, unique_texts, translation_map, batch_start, batch_log>>
    /\ UNCHANGED <<cacheVars, mapVars, ahVars, mainVars>>

NextTranslate == TrReturnEarly \/ TrStart \/ TrBatch \/ TrReturn

SpecTranslate == InitTranslate /\ [][NextTranslate]_vars

\* C5: the output has the input's length and order: position k holds the
\* service's translation of input k, or input k itself unchanged.
C5_LengthAndOrder ==
    pcT = "done" =>
        /\ Len(result) = Len(text_list)
        /\ \A k \in DOMAIN text_list :
              \/ result[k] = text_list[k]
              \/ /\ IsStr(text_list[k])
                 /\ result[k] = Str(Translate(text_list[k].v))

\* C5 witness: a list of more than BATCH_SIZE items with a repeat and a
\* non-string was returned after one batch call failed.
C5_Witness ==
    /\ pcT = "done"
    /\ Len(text_list) > BATCH_SIZE
    /\ \E k \in DOMAIN batch_log : ~batch_log[k].ok
    /\ \E k \in DOMAIN text_list : ~IsStr(text_list[k])
    /\ \E j, k \in DOMAIN text_list : j < k /\ text_list[j] = text_list[k] /\ Kept(text_list[j])

\* C6: a failed batch is not sent again, its strings come back as their own
\* original text, and the strings of the batches that succeeded come back
\* translated.
C6_FailedBatchFallsBack ==
    /\ \A a, b \in DOMAIN batch_log :
          a # b => batch_log[a].batch \cap batch_log[b].batch = {}
    /\ pcT = "done" =>
          \A b \in DOMAIN batch_log :
              \A k \in DOMAIN text_list :
                  (IsStr(text_list[k]) /\ text_list[k].v \in batch_log[b].batch)
                  => result[k] = IF batch_log[b].ok
                                 THEN Str(Translate(text_list[k].v))
                                 ELSE text_list[k]

\* C6 witness: two batches were sent, one failed and one succeeded.
C6_Witness ==
    /\ pcT = "done"
    /\ \E a, b \in DOMAIN batch_log : ~batch_log[a].ok /\ batch_log[b].ok

(***************************************************************************)
(* map_purchases.py: the mapping engine.  A similarity score is held in    *)
(* tenths of a point (850 is the score 85.0).                              *)
(***************************************************************************)
MATCH_THRESHOLD == 85
Limit == 3

\* str(x) of a cell.
PyStr(c) == IF c = NaN THEN "nan" ELSE c.v

\* db_choices = pd.Series(db_df.id.values, index=db_df.dutch_title).to_dict():
\* the titles in the order of their first row, each with the id of its last.
DbChoices(db_df) ==
    LET firsts == {k \in DOMAIN db_df :
                      \A j \in DOMAIN db_df :
                          j < k => db_df[j].dutch_title # db_df[k].dutch_title}
        keys == Pick(db_df, firsts, 1)
    IN  [n \in DOMAIN keys |->
            [match_name |-> PyStr(keys[n].dutch_title),
             prod_id |-> db_df[CHOOSE k \in DOMAIN db_df :
                                  /\ db_df[k].dutch_title = keys[n].dutch_title
                                  /\ \A j \in DOMAIN db_df :
                                        db_df[j].dutch_title = keys[n].dutch_title
                                        => j <= k].id]]

\* process.extract(query, choices, scorer=fuzz.WRatio, limit=limit): the
\* limit best choices, best first, equal scores in the order of the choices.
Extract(choices, scores, limit) ==
    LET before(j, k) ==
            \/ scores[choices[j].match_name] > scores[choices[k].match_name]
            \/ /\ scores[choices[j].match_name] = scores[choices[k].match_name]
               /\ j < k
        rank(k) == Cardinality({j \in DOMAIN choices : before(j, k)})
    IN  [r \in 1..Min(limit, Len(choices)) |->
            choices[CHOOSE k \in DOMAIN choices : rank(k) = r - 1]]

\* Mutant of find_best_matches: the threshold test is strict.
find_best_matches_strict(choices, scores, limit) ==
    LET results == Extract(choices, scores, limit)
        valid(m) == scores[m.match_name] > MATCH_THRESHOLD * 10
        kept == SelectSeq(results, valid)
    IN  [n \in DOMAIN kept |->
            [prod_id |-> kept[n].prod_id, match_name |-> kept[n].match_name,
             score |-> scores[kept[n].match_name]]]

\* find_best_matches(query, choices_dict, limit=3), scores being WRatio of
\* the query with each title.
find_best_matches(choices, scores, limit) ==
    LET results == Extract(choices, scores, limit)
        valid(m) == scores[m.match_name] >= MATCH_THRESHOLD * 10
        kept == SelectSeq(results, valid)
    IN  [n \in DOMAIN kept |->
            [prod_id |-> kept[n].prod_id, match_name |-> kept[n].match_name,
             score |-> scores[kept[n].match_name]]]

RECURSIVE JoinIds_Round(_, _)
\* Mutant of JoinIds: the score is rounded to the nearest integer.
JoinIds_Round(ms, k) ==
    IF k > Len(ms) THEN ""
    ELSE PyStr(ms[k].prod_id) \o " (" \o ToString((ms[k].score + 5) \div 10) \o "%)"
         \o (IF k < Len(ms) THEN "; " ELSE "") \o JoinIds_Round(ms, k + 1)

RECURSIVE JoinIds(_, _)
\* "; ".join([f"{m[0]} ({int(m[2])}%)" for m in matches]), from index k on.
JoinIds(ms, k) ==
    IF k > Len(ms) THEN ""
    ELSE PyStr(ms[k].prod_id) \o " (" \o ToString(ms[k].score \div 10) \o "%)"
         \o (IF k < Len(ms) THEN "; " ELSE "") \o JoinIds(ms, k + 1)

\* The characters of the store texts the model uses.
Chars(s) ==
    CASE s = "albert_heijn" ->
            <<"a", "l", "b", "e", "r", "t", "_", "h", "e", "i", "j", "n">>
      [] s = "Albert_Heijn" ->
            <<"A", "l", "b", "e", "r", "t", "_", "H", "e", "i", "j", "n">>
      [] s = "ALBERT_HEIJN" ->
            <<"A", "L", "B", "E", "R", "T", "_", "H", "E", "I", "J", "N">>
      [] s = "albert_heijn_xl" ->
            <<"a", "l", "b", "e", "r", "t", "_", "h", "e", "i", "j", "n", "_", "x", "l">>
      [] s = "albert heijn" ->
            <<"a", "l", "b", "e", "r", "t", " ", "h", "e", "i", "j", "n">>
      [] s = "lidl" -> <<"l", "i", "d", "l">>
      [] s = "" -> <<>>

UpperCase ==
    <<"A", "B", "C", "D", "E", "F", "G", "H", "I", "J", "K", "L", "M",
      "N", "O", "P", "Q", "R", "S", "T", "U", "V", "W", "X", "Y", "Z">>
LowerCase ==
    <<"a", "b", "c", "d", "e", "f", "g", "h", "i", "j", "k", "l", "m",
      "n", "o", "p", "q", "r", "s", "t", "u", "v", "w", "x", "y", "z">>

\* str.lower(), of the characters of a text.
Lower(cs) ==
    [k \in DOMAIN cs |->
        IF \E i \in DOMAIN UpperCase : UpperCase[i] = cs[k]
        THEN LowerCase[CHOOSE i \in DOMAIN UpperCase : UpperCase[i] = cs[k]]
        ELSE cs[k]]

\* sub in cs
Contains(sub, cs) ==
    \E i \in 0..(Len(cs) - Len(sub)) : SubSeq(cs, i + 1, i + Len(sub)) = sub

\* 'albert_heijn' in str(row.get('store', '')).lower()
IsAlbertHeijn(store) == Contains(Chars("albert_heijn"), Lower(Chars(store)))

\* Mutant of IsMapped: no row counts as carrying an id.
IsMapped_Never(row) == FALSE

\* The rows that already carry an id.
IsMapped(row) == Strip(row.id) # ""

\* known_mappings as built from the sheet: for every name of a mapped row,
\* the id and ids of the last such row.
History(records) ==
    LET named == {k \in DOMAIN records :
                     IsMapped(records[k]) /\ Strip(records[k].product_original) # ""}
    IN  [name \in {Strip(records[k].product_original) : k \in named} |->
            LET k == CHOOSE k \in named :
                        /\ Strip(records[k].product_original) = name
                        /\ \A j \in named :
                              Strip(records[j].product_original) = name => j <= k
            IN  [id |-> Strip(records[k].id), ids |-> Strip(records[k].ids)]]

RECURSIVE Selected_AnyId(_, _)
\* Mutant of Selected: the id of the row is not looked at.
Selected_AnyId(records, k) ==
    IF k > Len(records) THEN <<>>
    ELSE (IF IsAlbertHeijn(records[k].store) THEN <<k>> ELSE <<>>)
         \o Selected_AnyId(records, k + 1)

RECURSIVE Selected(_, _)
\* to_process_indices: the rows of albert_heijn with no id, from index k on.
Selected(records, k) ==
    IF k > Len(records) THEN <<>>
    ELSE (IF IsAlbertHeijn(records[k].store) /\ ~IsMapped(records[k])
          THEN <<k>> ELSE <<>>) \o Selected(records, k + 1)

\* The header row of a ledger that names its four columns, and of one that
\* has no id and ids columns yet.
HeaderFull == <<"product_original", "store", "id", "ids">>
HeaderBare == <<"product_original", "store">>

\* The cells of a data row, columns A to D.
Cells(row) == <<row.product_original, row.store, row.id, row.ids>>

\* The last column of the worksheet that holds a header or a value.
Width(ws, rows) ==
    CHOOSE w \in Len(ws.header)..4 :
        /\ \A k \in DOMAIN rows : \A c \in (w + 1)..4 : Cells(rows[k])[c] = ""
        /\ \/ w = Len(ws.header)
           \/ \E k \in DOMAIN rows : Cells(rows[k])[w] # ""

\* The first row of worksheet.get_all_values(): the header, '' over the
\* columns that hold values under no header.
HeaderRow(ws, rows) ==
    [c \in 1..Width(ws, rows) |-> IF c <= Len(ws.header) THEN ws.header[c] ELSE ""]

\* gspread refuses a header row that repeats a name, as the two blank
\* header cells over columns a run filled after add_cols.
HeaderRepeats(h) == \E c, d \in DOMAIN h : c < d /\ h[c] = h[d]

\* worksheet.get_all_records(): one dict per data row, keyed by the header row.
get_all_records(ws, rows) ==
    LET h == HeaderRow(ws, rows)
    IN  [k \in DOMAIN rows |->
            [n \in {h[c] : c \in DOMAIN h} |->
                Cells(rows[k])[CHOOSE c \in DOMAIN h : h[c] = n]]]

\* 'id' not in df_sheet.columns, df_sheet being pd.DataFrame(all_records): a
\* DataFrame made of no record has no column.
LacksId(all_records) == all_records = <<>> \/ "id" \notin DOMAIN all_records[1]

\* df_sheet after lines 61 to 68: the columns id and ids are set to "" when
\* the records have no id.  In both cases id is the third column of df_sheet
\* and ids the fourth, so col_id_idx is column C and col_ids_idx column D.
DfSheet(all_records) ==
    IF LacksId(all_records)
    THEN [k \in DOMAIN all_records |-> [id |-> "", ids |-> ""] @@ all_records[k]]
    ELSE all_records

\* worksheet.add_cols(2), called when the records have no id.
AddCols(ws, all_records) ==
    IF LacksId(all_records) THEN [ws EXCEPT !.added = @ + 2] ELSE ws

\* One staged write: the cell (sheet_row_num, column) and its new value.
\* Row k of the DataFrame (counted from 1) is row k + 1 of the worksheet.
Write(k, col, value) == [row |-> k + 1, col |-> col, value |-> value]

\* The writes staged for a row found in known_mappings.
HistoryWrites(k, entry) ==
    <<Write(k, "id", entry.id), Write(k, "ids", entry.ids)>>

\* The writes staged for a row with fuzzy matches.
MatchWrites(k, found) ==
    <<Write(k, "id", PyStr(found[1].prod_id)), Write(k, "ids", JoinIds(found, 1))>>

\* Mutant of NoMatchWrites: the id cell is written too.
NoMatchWrites_WithId(k) ==
    <<Write(k, "id", ""), Write(k, "ids", "No match found")>>

\* The write staged for a row with no fuzzy match.
NoMatchWrites(k) == <<Write(k, "ids", "No match found")>>

\* Mutant of Fold: the new find is not added to known_mappings.
Fold_Skip(known, name, found) == known

\* known_mappings[product_name] = (best_id, ids_str); the id is held as the
\* text str() gives it when it is staged.
Fold(known, name, found) ==
    (name :> [id |-> PyStr(found[1].prod_id), ids |-> JoinIds(found, 1)]) @@ known

RECURSIVE ApplyUpdates(_, _, _)
\* worksheet.batch_update(updates), from update n on.
ApplyUpdates(sh, ups, n) ==
    IF n > Len(ups) THEN sh
    ELSE ApplyUpdates(
             [sh EXCEPT ![ups[n].row - 1] =
                 IF ups[n].col = "id"
                 THEN [@ EXCEPT !.id = ups[n].value]
                 ELSE [@ EXCEPT !.ids = ups[n].value]],
             ups, n + 1)

(***************************************************************************)
(* The universe of the mapping model.                                      *)
(***************************************************************************)
ProductNames == {"melk", " melk ", "kaas", ""}
Stores == {"albert_heijn", "Albert_Heijn", "lidl"}
Mapped == [id |-> "99", ids |-> "99 (manual)"]
Blank == [id |-> "", ids |-> ""]

SheetRows ==
    {[product_original |-> n, store |-> st, id |-> m.id, ids |-> m.ids] :
        n \in ProductNames, st \in Stores, m \in {Mapped, Blank}}

\* The catalog file: five titles, the first of them on two rows.
CatalogRows ==
    <<[id |-> "11", dutch_title |-> "melk halfvol", english_title |-> "milk"],
      [id |-> "12", dutch_title |-> "melk vol", english_title |-> "milk"],
      [id |-> "13", dutch_title |-> "karnemelk", english_title |-> "milk"],
      [id |-> "14", dutch_title |-> "sojamelk", english_title |-> "milk"],
      [id |-> "15", dutch_title |-> "melkpoeder", english_title |-> "milk"],
      [id |-> "16", dutch_title |-> "melk halfvol", english_title |-> "milk"]>>

ScoreValues == {840, 850, 857}

\* The scores WRatio may give a name against the titles: any for "melk",
\* all low or all high for "kaas".
ScoreVectors(name, titles) ==
    IF name = "melk" THEN [titles -> ScoreValues]
    ELSE {[t \in titles |-> 840], [t \in titles |-> 900]}

\* WRatio is a function of the two texts: a name scored before has the
\* score it had against every title it was scored with.
KnownScores(name, titles) ==
    {v \in ScoreVectors(name, titles) :
        name \in DOMAIN wratio =>
            \A t \in titles \cap DOMAIN wratio[name] : v[t] = wratio[name][t]}

\* The scores of a name so far, with those of this lookup.
Scored(name, scores) ==
    IF name \in DOMAIN wratio THEN scores @@ wratio[name] ELSE scores

\* The ledgers a run can find: up to MaxRows of the given rows under either
\* header, columns C and D being empty when the header does not name them.
InitMapOver(rows, catalogs) ==
    /\ sheet \in SeqsUpTo(rows, MaxRows)
    /\ worksheet \in {[header |-> h, added |-> 0] : h \in {HeaderFull, HeaderBare}}
    /\ worksheet.header = HeaderBare =>
          \A k \in DOMAIN sheet : sheet[k].id = "" /\ sheet[k].ids = ""
    /\ edits = 0
    /\ memory_file \in {Absent, File(<<>>)} \cup {File(c) : c \in catalogs}
    /\ memory_map = EmptyMap
    /\ hist = Op("init", <<>>, Absent)
    /\ calls = 0
    /\ TrIdle
    /\ AhIdle
    /\ MainIdle
    /\ db_choices = <<>>
    /\ df_sheet = <<>>
    /\ wratio = <<>>
    /\ known_mappings = <<>>
    /\ to_process_indices = <<>>
    /\ pos = 0
    /\ updates = <<>>
    /\ matches = <<>>
    /\ pcM = "start"
    /\ row_log = <<>>
    /\ runs = 0
    /\ resolved = <<>>

InitMap == InitMapOver(SheetRows, {CatalogRows})

\* authenticate_google_sheets() returned None: return.
MapAuthFailed ==
    /\ pcM = "start"
    /\ pcM' = "auth_failed"
    /\ UNCHANGED <<sheet, db_choices, df_sheet, wratio, known_mappings, to_process_indices, pos, updates,
                   matches, row_log>>
    /\ UNCHANGED <<cacheVars, trVars, ahVars, mainVars, runs, resolved, worksheet, edits>>

\* load_database() returned None: return.
MapNoDatabase ==
    /\ pcM = "start"
    /\ ~memory_file.exists
    /\ pcM' = "no_database"
    /\ UNCHANGED <<sheet, db_choices, df_sheet, wratio, known_mappings, to_process_indices, pos, updates,
                   matches, row_log>>
    /\ UNCHANGED <<cacheVars, trVars, ahVars, mainVars, runs, resolved, worksheet, edits>>

\* worksheet.get_all_records() raises: the request fails, or the header row
\* repeats a name.  The exception leaves run_mapping_pipeline.
MapReadFailed ==
    /\ pcM = "start"
    /\ memory_file.exists
    /\ db_choices' = DbChoices(read_csv(memory_file.rows))
    /\ pcM' = "raised"
    /\ UNCHANGED <<sheet, df_sheet, wratio, known_mappings, to_process_indices, pos,
                   updates, matches, row_log>>
    /\ UNCHANGED <<cacheVars, trVars, ahVars, mainVars, runs, resolved, worksheet, edits>>

\* Steps 1 to 3 with no row to process: return.
MapNothingToDo ==
    /\ pcM = "start"
    /\ memory_file.exists
    /\ ~HeaderRepeats(HeaderRow(worksheet, sheet))
    /\ LET all_records == get_all_records(worksheet, sheet)
           df == DfSheet(all_records)
       IN  /\ Selected(df, 1) = <<>>
           /\ worksheet' = AddCols(worksheet, all_records)
           /\ df_sheet' = df
           /\ known_mappings' = History(df)
    /\ db_choices' = DbChoices(read_csv(memory_file.rows))
    /\ pcM' = "nothing_to_do"
    /\ UNCHANGED <<sheet, wratio, to_process_indices, pos, updates, matches, row_log>>
    /\ UNCHANGED <<cacheVars, trVars, ahVars, mainVars, runs, resolved, edits>>

\* Steps 1 to 3: the history table and the rows to process.
MapSetup ==
    /\ pcM = "start"
    /\ memory_file.exists
    /\ ~HeaderRepeats(HeaderRow(worksheet, sheet))
    /\ LET all_records == get_all_records(worksheet, sheet)
           df == DfSheet(all_records)
       IN  /\ Selected(df, 1) # <<>>
           /\ worksheet' = AddCols(worksheet, all_records)
           /\ df_sheet' = df
           /\ known_mappings' = History(df)
           /\ to_process_indices' = Selected(df, 1)
    /\ db_choices' = DbChoices(read_csv(memory_file.rows))
    /\ pos' = 1
    /\ pcM' = "loop"
    /\ UNCHANGED <<sheet, wratio, updates, matches, row_log>>
    /\ UNCHANGED <<cacheVars, trVars, ahVars, mainVars, runs, resolved, edits>>

InLoop == pcM = "loop" /\ pos <= Len(to_process_indices)
Idx == to_process_indices[pos]

\* Mutant of ProductName: the name is not stripped.
ProductName_Raw == df_sheet[Idx].product_original

\* product_name = str(df_sheet.at[idx, 'product_original']).strip()
ProductName == Strip(df_sheet[Idx].product_original)

\* The record of one pass of the loop: the row, the name looked up, the
\* branch taken and known_mappings as the pass found it.
Logged(how) ==
    Append(row_log,
           [idx |-> Idx, name |-> ProductName, how |-> how, table |-> known_mappings])

\* if not product_name: continue
MapRowBlank ==
    /\ InLoop
    /\ ProductName = ""
    /\ pos' = pos + 1
    /\ row_log' = Logged("blank")
    /\ UNCHANGED <<sheet, db_choices, df_sheet, wratio, known_mappings, to_process_indices, updates,
                   matches, pcM>>
    /\ UNCHANGED <<cacheVars, trVars, ahVars, mainVars, runs, resolved, worksheet, edits>>

\* CHECK 1: the name is in known_mappings.
MapRowHistory ==
    /\ InLoop
    /\ ProductName # ""
    /\ ProductName \in DOMAIN known_mappings
    /\ updates' = updates \o HistoryWrites(Idx, known_mappings[ProductName])
    /\ pos' = pos + 1
    /\ row_log' = Logged("history")
    /\ UNCHANGED <<sheet, db_choices, df_sheet, wratio, known_mappings, to_process_indices, matches, pcM>>
    /\ UNCHANGED <<cacheVars, trVars, ahVars, mainVars, runs, resolved, worksheet, edits>>

\* CHECK 2: find_best_matches(product_name, db_choices), then the branch
\* taken on its result.
MapRowFuzzy ==
    /\ InLoop
    /\ ProductName # ""
    /\ ProductName \notin DOMAIN known_mappings
    /\ LET titles == {db_choices[n].match_name : n \in DOMAIN db_choices}
       IN  \E scores \in KnownScores(ProductName, titles) :
               LET found == find_best_matches(db_choices, scores, Limit)
               IN  /\ wratio' = (ProductName :> Scored(ProductName, scores)) @@ wratio
                   /\ matches' = found
                   /\ IF found # <<>>
                      THEN /\ updates' = updates \o MatchWrites(Idx, found)
                           /\ known_mappings' = Fold(known_mappings, ProductName, found)
                           /\ row_log' = Logged("fuzzy")
                      ELSE /\ updates' = updates \o NoMatchWrites(Idx)
                           /\ known_mappings' = known_mappings
                           /\ row_log' = Logged("nomatch")
    /\ pos' = pos + 1
    /\ UNCHANGED <<sheet, db_choices, df_sheet, to_process_indices, pcM>>
    /\ UNCHANGED <<cacheVars, trVars, ahVars, mainVars, runs, resolved, worksheet, edits>>

\* The resolution state of the rows after a saved run: a row the loop gave
\* writes is RESOLVED_BY_HISTORY, RESOLVED_BY_FUZZY or UNRESOLVED_NO_MATCH with
\* the id and ids the save put in it; a row already in a state keeps its record.
Resolve(res, log, sh) ==
    LET passes == {i \in DOMAIN log : log[i].how # "blank"}
        new == {log[i].idx : i \in passes} \ DOMAIN res
    IN  [k \in new |->
            [how |-> log[CHOOSE i \in passes : log[i].idx = k].how,
             id |-> sh[k].id, ids |-> sh[k].ids]] @@ res

\* Step 5: worksheet.batch_update(updates) succeeds or raises; with nothing
\* staged it is not called.
MapSave ==
    /\ pcM = "loop"
    /\ pos > Len(to_process_indices)
    /\ \E ok \in BOOLEAN :
          /\ sheet' = IF ok THEN ApplyUpdates(sheet, updates, 1) ELSE sheet
          /\ resolved' = IF ok THEN Resolve(resolved, row_log, sheet') ELSE resolved
    /\ pcM' = "done"
    /\ UNCHANGED <<db_choices, df_sheet, wratio, known_mappings, to_process_indices,
                   pos, updates, matches, row_log>>
    /\ UNCHANGED <<cacheVars, trVars, ahVars, mainVars, runs, worksheet, edits>>

NextMap ==
    \/ MapAuthFailed \/ MapNoDatabase \/ MapReadFailed \/ MapNothingToDo \/ MapSetup
    \/ MapRowBlank \/ MapRowHistory \/ MapRowFuzzy \/ MapSave

SpecMap == InitMap /\ [][NextMap]_vars

(***************************************************************************)
(* Claims about the mapping engine.                                        *)
(***************************************************************************)
\* The writes staged for row k of the DataFrame.
WritesFor(k) ==
    LET forRow(u) == u.row = k + 1
    IN  SelectSeq(updates, forRow)

\* The stripped name of the row a pass of the loop handled.
NameOf(e) == Strip(sheet[e.idx].product_original)

\* The catalog as the run read it.
Catalog == DbChoices(Stored(memory_file))

\* The score of a name against a title; the empty name scores 0.
ScoreOf(name, title) == IF name = "" THEN 0 ELSE wratio[name][title]

\* The entries of a catalog whose score against the name is at least 85.
Clearing(cat, name) ==
    {n \in DOMAIN cat : ScoreOf(name, cat[n].match_name) >= 850}

LastPass == row_log[Len(row_log)]

\* C7: the fuzzy lookup returns exactly the up-to-3 highest-scoring catalog
\* titles whose score is at least 85, in descending score order; a title
\* scoring exactly 85 is accepted and a title scoring 84 never appears in the
\* result or in the annotation staged from it.
C7_TopThreeAtLeast85 ==
    (row_log # <<>> /\ LastPass.how \in {"fuzzy", "nomatch"}) =>
        LET q == LastPass.name
            cat == Catalog
            Q == Clearing(cat, q)
        IN  /\ Len(matches) = Min(Limit, Cardinality(Q))
            /\ \A a \in DOMAIN matches :
                  \E n \in Q :
                      matches[a] = [prod_id |-> cat[n].prod_id,
                                    match_name |-> cat[n].match_name,
                                    score |-> wratio[q][cat[n].match_name]]
            /\ \A a, b \in DOMAIN matches :
                  a < b => /\ matches[a].score >= matches[b].score
                           /\ matches[a].match_name # matches[b].match_name
            /\ \A n \in Q :
                  (\A a \in DOMAIN matches :
                      matches[a].match_name # cat[n].match_name)
                  => \A a \in DOMAIN matches :
                        matches[a].score >= wratio[q][cat[n].match_name]
            /\ matches # <<>> =>
                  WritesFor(LastPass.idx) =
                      <<[row |-> LastPass.idx + 1, col |-> "id",
                         value |-> PyStr(matches[1].prod_id)],
                        [row |-> LastPass.idx + 1, col |-> "ids",
                         value |-> JoinIds(matches, 1)]>>

\* A lookup that kept three of four clearing titles, one of them scoring
\* exactly 85 and the best scoring more, while a fifth title scored 84.
C7_Witness ==
    /\ row_log # <<>>
    /\ LastPass.how = "fuzzy"
    /\ Len(matches) = Limit
    /\ Cardinality(Clearing(Catalog, LastPass.name)) = Limit + 1
    /\ \E a \in DOMAIN matches : matches[a].score = 850
    /\ matches[1].score > 850
    /\ \E n \in DOMAIN Catalog : wratio[LastPass.name][Catalog[n].match_name] = 840

\* C8: every processed row whose stripped name is a key of the history table
\* with identifier X is staged X as its id and the annotation recorded with
\* X as its ids, whatever the fuzzy search would return.
C8_HistoryWins ==
    \A i \in DOMAIN row_log :
        LET e == row_log[i]
            name == NameOf(e)
        IN  name \in DOMAIN e.table =>
                WritesFor(e.idx) =
                    <<[row |-> e.idx + 1, col |-> "id", value |-> e.table[name].id],
                      [row |-> e.idx + 1, col |-> "ids", value |-> e.table[name].ids]>>

\* A row resolved from the history the sheet gave, for a name whose fuzzy
\* search can return a clearing top candidate with another identifier.
C8_Witness ==
    /\ pcM = "loop"
    /\ \E i \in DOMAIN row_log :
          LET e == row_log[i]
              name == NameOf(e)
              titles == {Catalog[n].match_name : n \in DOMAIN Catalog}
          IN  /\ e.how = "history"
              /\ name \in DOMAIN History(sheet)
              /\ sheet[e.idx].product_original # name
              /\ \E scores \in ScoreVectors(name, titles) :
                    LET found == find_best_matches(Catalog, scores, Limit)
                    IN  /\ found # <<>>
                        /\ PyStr(found[1].prod_id) # e.table[name].id

\* C9: when two rows processed in the same run have the same name and the
\* first is resolved by a fuzzy match, the second is resolved through the
\* history table, with no second fuzzy lookup, and is staged the same id and
\* the same annotation as the first.
C9_IntraRunConsistency ==
    \A i, j \in DOMAIN row_log :
        (/\ i < j
         /\ NameOf(row_log[i]) = NameOf(row_log[j])
         /\ row_log[i].how = "fuzzy")
        => /\ row_log[j].how = "history"
           /\ Len(WritesFor(row_log[i].idx)) = 2
           /\ Len(WritesFor(row_log[j].idx)) = 2
           /\ \A n \in 1..2 :
                 /\ WritesFor(row_log[j].idx)[n].col = WritesFor(row_log[i].idx)[n].col
                 /\ WritesFor(row_log[j].idx)[n].value
                        = WritesFor(row_log[i].idx)[n].value

\* Two rows of one name, the first resolved by a fuzzy match with several
\* candidates, the second handled after it.
C9_Witness ==
    \E i, j \in DOMAIN row_log :
        /\ i < j
        /\ NameOf(row_log[i]) = NameOf(row_log[j])
        /\ row_log[i].how = "fuzzy"
        /\ NameOf(row_log[i]) \notin DOMAIN History(sheet)
        /\ Len(matches) > 1

\* C10 as stated: every processed row whose name is not in the history table
\* and for which no catalog title scores at least 85 is staged no id write and
\* exactly one write, of the marker 'No match found' to its ids cell.
C10_NoMatchOutcome ==
    \A i \in DOMAIN row_log :
        LET e == row_log[i]
        IN  (NameOf(e) \notin DOMAIN e.table /\ Clearing(Catalog, NameOf(e)) = {}) =>
                WritesFor(e.idx) =
                    <<[row |-> e.idx + 1, col |-> "ids", value |-> "No match found"]>>

\* C10 amended: the same for every processed row whose stripped name is not
\* blank; a row with a blank name is skipped and staged nothing.
C10_NoMatchOutcomeNamed ==
    \A i \in DOMAIN row_log :
        LET e == row_log[i]
        IN  /\ (/\ NameOf(e) # ""
                /\ NameOf(e) \notin DOMAIN e.table
                /\ Clearing(Catalog, NameOf(e)) = {}) =>
                   WritesFor(e.idx) =
                       <<[row |-> e.idx + 1, col |-> "ids", value |-> "No match found"]>>
            /\ NameOf(e) = "" => WritesFor(e.idx) = <<>>

\* A run over a catalog with titles that staged the marker for a named row and
\* skipped a row with a blank name.
C10_Witness ==
    /\ Catalog # <<>>
    /\ \E i, j \in DOMAIN row_log :
          /\ row_log[i].how = "nomatch"
          /\ NameOf(row_log[i]) # ""
          /\ row_log[j].how = "blank"

\* C11: every staged write targets the id or ids cell of a row read with the
\* store albert_heijn and a blank id; the rows of another store or with an
\* id, and the other columns of every row, are as the run read them.
C11_LedgerFrame ==
    pcM \in {"loop", "nothing_to_do", "done"} =>
        /\ \A n \in DOMAIN updates :
              /\ updates[n].col \in {"id", "ids"}
              /\ updates[n].row - 1 \in DOMAIN df_sheet
              /\ IsAlbertHeijn(df_sheet[updates[n].row - 1].store)
              /\ Strip(df_sheet[updates[n].row - 1].id) = ""
        /\ Len(sheet) = Len(df_sheet)
        /\ \A k \in DOMAIN sheet :
              /\ sheet[k].product_original = df_sheet[k].product_original
              /\ sheet[k].store = df_sheet[k].store
              /\ (~IsAlbertHeijn(df_sheet[k].store) \/ Strip(df_sheet[k].id) # "")
                 => sheet[k] = df_sheet[k]

\* A saved run that wrote one row and left alone a row of the same name that
\* has another store or an id.
C11_Witness ==
    /\ pcM = "done"
    /\ \E j, k \in DOMAIN sheet :
          /\ sheet[j].id # df_sheet[j].id
          /\ Strip(sheet[k].product_original) = Strip(sheet[j].product_original)
          /\ ~IsAlbertHeijn(df_sheet[k].store) \/ Strip(df_sheet[k].id) # ""

(***************************************************************************)
(* albert_heijn.py: scrape_ah_final, the category merge of the export.     *)
(***************************************************************************)
\* ACTIVE_CATS, three of its slugs in the order of the dict.
Categories == <<"vlees", "kaas", "diepvries">>

\* The order of Python's sorted() on these slugs.
AisleRank == ("diepvries" :> 1) @@ ("kaas" :> 2) @@ ("vlees" :> 3)

\* p.get('id') of a product that carries no id.
None == "None"
AhIds == {"9999", "1", None}

\* p.get('title'): a product keeps its title from one page to the next.
AhTitle(id) ==
    CASE id = "9999" -> "kipfilet"
      [] id = "1" -> "melk"
      [] id = None -> "brood"

\* item: the fields of a collected product that the export is made from.
Item(id, slug) == [id |-> id, title |-> AhTitle(id), scraped_aisle |-> slug]

\* Mutant of SortedAisles: the slugs in the order they were scraped.
SortedAisles_ScrapeOrder(S) ==
    LET in(c) == c \in S
    IN  SelectSeq(Categories, in)

RECURSIVE SortedAisles(_)
\* sorted(set(x))
SortedAisles(S) ==
    IF S = {} THEN <<>>
    ELSE LET first == CHOOSE a \in S : \A b \in S : AisleRank[a] <= AisleRank[b]
         IN  <<first>> \o SortedAisles(S \ {first})

RECURSIVE JoinAisles(_, _)
\* '; '.join(seq), from index k on.
JoinAisles(seq, k) ==
    IF k > Len(seq) THEN ""
    ELSE seq[k] \o (IF k < Len(seq) THEN "; " ELSE "") \o JoinAisles(seq, k + 1)

\* df.groupby('id')['scraped_aisle'].apply(...): groupby leaves out the rows
\* with no id.
AisleMap(df) ==
    [id \in {df[k].id : k \in DOMAIN df} \ {None} |->
        JoinAisles(SortedAisles({df[k].scraped_aisle :
                                    k \in {j \in DOMAIN df : df[j].id = id}}), 1)]

\* df.merge(aisle_map, on='id', how='left')
MergeAisles(df, aisle_map) ==
    [k \in DOMAIN df |->
        [id |-> df[k].id, title |-> df[k].title,
         scraped_aisle |-> df[k].scraped_aisle,
         all_aisles |-> IF df[k].id \in DOMAIN aisle_map
                        THEN Str(aisle_map[df[k].id]) ELSE NaN]]

\* df.drop_duplicates(subset=['id']): the first row of every id.
DropDuplicateIds(df) ==
    Pick(df, {k \in DOMAIN df : \A j \in DOMAIN df : j < k => df[j].id # df[k].id}, 1)

\* Steps 2 and 3 of the processing: df_unique.
UniqueExport(df) == DropDuplicateIds(MergeAisles(df, AisleMap(df)))

\* The products the site can serve: up to MaxItems in all, each under one of
\* the categories.
Sites ==
    UNION {UNION {{<<SubSeq(ids, 1, a), SubSeq(ids, a + 1, b),
                     SubSeq(ids, b + 1, Len(ids))>> : a \in 0..b} :
                  b \in 0..Len(ids)} :
           ids \in SeqsUpTo(AhIds, MaxItems)}

\* The products of the current category collected so far.
Collected ==
    Cardinality({k \in DOMAIN master_data :
                    master_data[k].scraped_aisle = Categories[aisle_idx]})

InitAh ==
    /\ site \in Sites
    /\ master_data = <<>>
    /\ aisle_idx = 1
    /\ export = [written |-> FALSE, rows |-> <<>>]
    /\ pcA = "scrape"
    /\ memory_file = Absent
    /\ memory_map = EmptyMap
    /\ hist = Op("init", <<>>, Absent)
    /\ calls = 0
    /\ TrIdle
    /\ MapIdle
    /\ MainIdle

\* The next product of the pages of the current category is appended to
\* master_data.
AhFetch ==
    /\ pcA = "scrape"
    /\ aisle_idx <= Len(Categories)
    /\ Collected < Len(site[aisle_idx])
    /\ master_data' = Append(master_data,
                             Item(site[aisle_idx][Collected + 1], Categories[aisle_idx]))
    /\ UNCHANGED <<site, aisle_idx, export, pcA>>
    /\ UNCHANGED <<cacheVars, trVars, mapVars, mainVars>>

\* The pages of the category are done, or a request failed: the next category.
AhNextCategory ==
    /\ pcA = "scrape"
    /\ aisle_idx <= Len(Categories)
    /\ aisle_idx' = aisle_idx + 1
    /\ UNCHANGED <<site, master_data, export, pcA>>
    /\ UNCHANGED <<cacheVars, trVars, mapVars, mainVars>>

\* if master_data: the export is written.
AhProcess ==
    /\ pcA = "scrape"
    /\ aisle_idx > Len(Categories)
    /\ master_data # <<>>
    /\ export' = [written |-> TRUE, rows |-> UniqueExport(master_data)]
    /\ pcA' = "done"
    /\ UNCHANGED <<site, master_data, aisle_idx>>
    /\ UNCHANGED <<cacheVars, trVars, mapVars, mainVars>>

\* else: return None, None
AhNoData ==
    /\ pcA = "scrape"
    /\ aisle_idx > Len(Categories)
    /\ master_data = <<>>
    /\ pcA' = "done"
    /\ UNCHANGED <<site, master_data, aisle_idx, export>>
    /\ UNCHANGED <<cacheVars, trVars, mapVars, mainVars>>

\* An exception leaves scrape_ah_final: the session cannot be made before the
\* first request, or a file cannot be written once the products are collected.
AhRaise ==
    /\ pcA = "scrape"
    /\ \/ aisle_idx = 1 /\ master_data = <<>>
       \/ aisle_idx > Len(Categories) /\ master_data # <<>>
    /\ pcA' = "raised"
    /\ UNCHANGED <<site, master_data, aisle_idx, export>>
    /\ UNCHANGED <<cacheVars, trVars, mapVars, mainVars>>

NextAh == AhFetch \/ AhNextCategory \/ AhProcess \/ AhNoData \/ AhRaise

SpecAh == InitAh /\ [][NextAh]_vars

\* The text sorted() and '; '.join give each set of the three slugs.
ExpectedAisles(S) ==
    CASE S = {"diepvries"} -> "diepvries"
      [] S = {"kaas"} -> "kaas"
      [] S = {"vlees"} -> "vlees"
      [] S = {"diepvries", "kaas"} -> "diepvries; kaas"
      [] S = {"diepvries", "vlees"} -> "diepvries; vlees"
      [] S = {"kaas", "vlees"} -> "kaas; vlees"
      [] S = {"diepvries", "kaas", "vlees"} -> "diepvries; kaas; vlees"

\* C12: for every identifier fetched under one or more categories the export
\* holds exactly one row, and its all_aisles is the set of the categories the
\* identifier appeared under, sorted and joined with '; '.
C12_CategoryMerge ==
    pcA = "done" /\ export.written =>
        \A id \in {master_data[k].id : k \in DOMAIN master_data} \ {None} :
            /\ Cardinality({n \in DOMAIN export.rows : export.rows[n].id = id}) = 1
            /\ \A n \in DOMAIN export.rows :
                  export.rows[n].id = id =>
                      export.rows[n].all_aisles =
                          Str(ExpectedAisles({master_data[k].scraped_aisle :
                                 k \in {j \in DOMAIN master_data :
                                           master_data[j].id = id}}))

\* An export for identifier 9999 fetched under vlees twice and under
\* diepvries, next to another identifier.
C12_Witness ==
    /\ pcA = "done"
    /\ export.written
    /\ Len(master_data) = MaxItems
    /\ Cardinality({k \in DOMAIN master_data :
                       master_data[k] = Item("9999", "vlees")}) = 2
    /\ \E n \in DOMAIN export.rows :
          /\ export.rows[n].id = "9999"
          /\ export.rows[n].all_aisles = Str("diepvries; vlees")
    /\ \E n \in DOMAIN export.rows : export.rows[n].id = "1"

(***************************************************************************)
(* Repeated runs of the mapping pipeline, the catalog growing and other    *)
(* rows being edited by hand between them.                                 *)
(***************************************************************************)
\* run_mapping_pipeline has returned, or an exception has left it.
Returned == pcM \in {"auth_failed", "no_database", "raised", "nothing_to_do", "done"}

\* The catalog file the repeated runs start from: two rows of CatalogRows.
RunCatalogRows == SubSeq(CatalogRows, 2, 3)

\* The row a later export adds to the catalog file.
NewCatalogRow == [id |-> "21", dutch_title |-> "melk lactosevrij", english_title |-> "milk"]

\* The catalog file after a later export added a title to it.
GrownCatalogRows == RunCatalogRows \o <<NewCatalogRow>>

\* update_memory_safely between two runs: the catalog file is written, or
\* gains a title.
CatalogChange ==
    /\ Returned
    /\ runs < MaxReruns
    /\ \A k \in DOMAIN memory_file.rows : memory_file.rows[k] # NewCatalogRow
    /\ memory_file' = IF memory_file.exists /\ memory_file.rows # <<>>
                      THEN File(memory_file.rows \o <<NewCatalogRow>>)
                      ELSE File(RunCatalogRows)
    /\ UNCHANGED <<memory_map, hist, calls>>
    /\ UNCHANGED <<trVars, mapVars, ahVars, mainVars>>

\* A person fills in or clears the id and ids of a row of the ledger.  Nothing
\* keeps this from happening while a run is between its read of the ledger
\* and its write.  An edited row is no longer in the state a run gave it.
HumanEdit ==
    /\ edits < MaxEdits
    /\ edits' = edits + 1
    /\ \E k \in DOMAIN sheet : \E m \in {Mapped, Blank} :
          /\ m # [id |-> sheet[k].id, ids |-> sheet[k].ids]
          /\ sheet' = [sheet EXCEPT ![k] = [@ EXCEPT !.id = m.id, !.ids = m.ids]]
          /\ resolved' = [j \in DOMAIN resolved \ {k} |-> resolved[j]]
    /\ UNCHANGED <<worksheet, db_choices, df_sheet, wratio, known_mappings,
                   to_process_indices, pos, updates, matches, pcM, row_log, runs>>
    /\ UNCHANGED <<cacheVars, trVars, ahVars, mainVars>>

\* run_mapping_pipeline is called again.
MapRunAgain ==
    /\ Returned
    /\ runs < MaxReruns
    /\ runs' = runs + 1
    /\ pcM' = "start"
    /\ db_choices' = <<>>
    /\ df_sheet' = <<>>
    /\ known_mappings' = <<>>
    /\ to_process_indices' = <<>>
    /\ pos' = 0
    /\ updates' = <<>>
    /\ matches' = <<>>
    /\ row_log' = <<>>
    /\ UNCHANGED <<sheet, worksheet, edits, wratio, resolved>>
    /\ UNCHANGED <<cacheVars, trVars, ahVars, mainVars>>

NextMapRuns == NextMap \/ CatalogChange \/ HumanEdit \/ MapRunAgain

\* The rows of the ledgers that repeated runs are followed on.
RunRows ==
    {r \in SheetRows :
        r.product_original \in {"melk", "kaas", ""} /\ r.store \in {"albert_heijn", "lidl"}}

InitMapRuns == InitMapOver(RunRows, {RunCatalogRows})

SpecMapRuns == InitMapRuns /\ [][NextMapRuns]_vars

\* C13 as stated: a row a saved run put in RESOLVED_BY_HISTORY,
\* RESOLVED_BY_FUZZY or UNRESOLVED_NO_MATCH has ever after the id and ids
\* that run gave it, no person having edited it.
C13_ResolutionTerminal ==
    \A k \in DOMAIN resolved :
        /\ sheet[k].id = resolved[k].id
        /\ sheet[k].ids = resolved[k].ids

\* C13 amended: the same for the rows put in RESOLVED_BY_HISTORY or
\* RESOLVED_BY_FUZZY with an id that is not blank.
C13_ResolvedTerminal ==
    \A k \in DOMAIN resolved :
        (resolved[k].how \in {"history", "fuzzy"} /\ Strip(resolved[k].id) # "") =>
            /\ sheet[k].id = resolved[k].id
            /\ sheet[k].ids = resolved[k].ids

\* A second run, over a grown catalog, that saved a write to another row while
\* a row the first run resolved by a fuzzy match stayed as it was.
C13_Witness ==
    /\ runs = 1
    /\ pcM = "done"
    /\ memory_file = File(GrownCatalogRows)
    /\ sheet # df_sheet
    /\ \E k \in DOMAIN resolved :
          /\ resolved[k].how = "fuzzy"
          /\ \A i \in DOMAIN row_log : row_log[i].idx # k

(***************************************************************************)
(* Claims about process_ah_export.                                         *)
(***************************************************************************)
\* C14: in process_ah_export, a product of the export whose identifier is a
\* key of the cache as loaded is not sent to the translation service, and the
\* translation stored for that identifier is the same after the run.
C14_CachedNotResent ==
    hist.op = "export" =>
        LET loaded == LoadMap(hist.before)
            after == LoadMap(memory_file)
        IN  \A k \in DOMAIN hist.rows :
                Str(hist.rows[k].id) \in DOMAIN loaded =>
                    /\ \A n \in DOMAIN hist.E :
                          hist.E[n].dutch_title # Str(hist.rows[k].title)
                    /\ Str(hist.rows[k].id) \in DOMAIN after
                    /\ after[Str(hist.rows[k].id)] = loaded[Str(hist.rows[k].id)]

(***************************************************************************)
(* run.py: main, the four stages in sequence.                              *)
(***************************************************************************)
\* The step main goes to when a stage returned.
AfterStage(stage) ==
    CASE stage = "lidl" -> "ah"
      [] stage = "ah" -> "translate"
      [] stage = "translate" -> "map"
      [] stage = "map" -> "finish"

\* Mutant of AfterFailure: the exception of a stage ends the run.
AfterFailure_Abort(stage) == "aborted"

\* except Exception as e: print(...); main goes on with the next step.
AfterFailure(stage) == AfterStage(stage)

Event(stage, event, files) == [stage |-> stage, event |-> event, files |-> files]

\* The ledgers and the translation memories a run of main can find.
MainRow(name, m) ==
    [product_original |-> name, store |-> "albert_heijn", id |-> m.id, ids |-> m.ids]
MainSheets ==
    {<<>>, <<MainRow("melk", Blank)>>, <<MainRow("", Blank)>>,
     <<MainRow("melk", Mapped), MainRow("melk", Blank)>>}
MainSites == {<<<<>>, <<>>, <<>>>>, <<<<"1", None>>, <<>>, <<"1">>>>}
MainMemories == {Absent, File(<<[id |-> "1", dutch_title |-> "melk", english_title |-> "milk"]>>)}

InitMain ==
    /\ pcR = "lidl"
    /\ lidl_file = NoFile
    /\ ah_export_file = NoFile
    /\ ah_summary_file = NoFile
    /\ stage_log = <<>>
    /\ memory_file \in MainMemories
    /\ memory_map = EmptyMap
    /\ hist = Op("init", <<>>, Absent)
    /\ calls = 0
    /\ TrIdle
    /\ site \in MainSites
    /\ master_data = <<>>
    /\ aisle_idx = 0
    /\ export = [written |-> FALSE, rows |-> <<>>]
    /\ pcA = "idle"
    /\ sheet \in MainSheets
    /\ worksheet = [header |-> HeaderFull, added |-> 0]
    /\ edits = 0
    /\ db_choices = <<>>
    /\ df_sheet = <<>>
    /\ wratio = <<>>
    /\ known_mappings = <<>>
    /\ to_process_indices = <<>>
    /\ pos = 0
    /\ updates = <<>>
    /\ matches = <<>>
    /\ pcM = "idle"
    /\ row_log = <<>>
    /\ runs = 0
    /\ resolved = <<>>

\* A stage with no argument is called: what main records of it.
StartStage(stage) ==
    /\ pcR = stage
    /\ pcR' = stage \o "_running"
    /\ stage_log' = Append(stage_log, Event(stage, "start", <<>>))
    /\ UNCHANGED <<lidl_file, ah_export_file, ah_summary_file>>

\* STEP 1: lidl.scrape_lidl_final_refined() is called.
LidlStart ==
    /\ StartStage("lidl")
    /\ UNCHANGED <<cacheVars, trVars, mapVars, ahVars>>

\* STEP 1: the Lidl scrape raises, returns None or returns a file.
RunLidl ==
    /\ pcR = "lidl_running"
    /\ \E out \in {"raise", "none", "file"} :
          /\ lidl_file' = IF out = "file" THEN "lidl.csv" ELSE NoFile
          /\ pcR' = IF out = "raise" THEN AfterFailure("lidl") ELSE AfterStage("lidl")
          /\ stage_log' = Append(stage_log, Event("lidl", out, <<>>))
    /\ UNCHANGED <<ah_export_file, ah_summary_file>>
    /\ UNCHANGED <<cacheVars, trVars, mapVars, ahVars>>

\* STEP 2: albert_heijn.scrape_ah_final() is called; it runs by the steps
\* AhFetch, AhNextCategory, AhProcess, AhNoData and AhRaise.
AhStart ==
    /\ StartStage("ah")
    /\ pcA = "idle"
    /\ pcA' = "scrape"
    /\ aisle_idx' = 1
    /\ UNCHANGED <<site, master_data, export>>
    /\ UNCHANGED <<cacheVars, trVars, mapVars>>

\* STEP 2: scrape_ah_final has raised, returned (None, None) or returned the
\* names of the two files it wrote.
RunAh ==
    /\ pcR = "ah_running"
    /\ pcA \in {"done", "raised"}
    /\ LET out == IF pcA = "raised" THEN "raise"
                  ELSE IF export.written THEN "file" ELSE "none"
       IN  /\ ah_export_file' = IF out = "file" THEN "ah_export.csv" ELSE NoFile
           /\ ah_summary_file' = IF out = "file" THEN "ah_summary.csv" ELSE NoFile
           /\ pcR' = IF out = "raise" THEN AfterFailure("ah") ELSE AfterStage("ah")
           /\ stage_log' = Append(stage_log, Event("ah", out, <<>>))
    /\ UNCHANGED lidl_file
    /\ UNCHANGED <<cacheVars, trVars, mapVars, ahVars>>

\* any([lidl_file, ah_export_file, ah_summary_file])
AnyFile == lidl_file # NoFile \/ ah_export_file # NoFile \/ ah_summary_file # NoFile

\* STEP 3 with no file: "No files to translate."
TranslateSkip ==
    /\ pcR = "translate"
    /\ ~AnyFile
    /\ pcR' = "map"
    /\ UNCHANGED <<lidl_file, ah_export_file, ah_summary_file, stage_log>>
    /\ UNCHANGED <<cacheVars, trVars, mapVars, ahVars>>

\* STEP 3: file_trans.run_translation_pipeline is called with the three files.
TranslateStart ==
    /\ pcR = "translate"
    /\ AnyFile
    /\ pcR' = "t_lidl"
    /\ stage_log' = Append(stage_log,
                           Event("translate", "start",
                                 <<lidl_file, ah_export_file, ah_summary_file>>))
    /\ UNCHANGED <<lidl_file, ah_export_file, ah_summary_file>>
    /\ UNCHANGED <<cacheVars, trVars, mapVars, ahVars>>

\* A line of run_translation_pipeline is done (ok) or has raised: where main
\* goes and what it records.
TranslateStep(ok, then) ==
    /\ IF ok
       THEN /\ pcR' = then
            /\ stage_log' = IF then = AfterStage("translate")
                            THEN Append(stage_log, Event("translate", "return", <<>>))
                            ELSE stage_log
       ELSE /\ pcR' = AfterFailure("translate")
            /\ stage_log' = Append(stage_log, Event("translate", "raise", <<>>))
    /\ UNCHANGED <<lidl_file, ah_export_file, ah_summary_file>>

\* One line of run_translation_pipeline for a file the memory is not used
\* for: the file is processed when there is one, and processing returns or
\* raises.
TranslateFile(at, file, then) ==
    /\ pcR = at
    /\ \E ok \in IF file = NoFile THEN {TRUE} ELSE BOOLEAN : TranslateStep(ok, then)
    /\ UNCHANGED <<cacheVars, trVars, mapVars, ahVars>>

\* if lidl_file: process_lidl(lidl_file)
TranslateLidl == TranslateFile("t_lidl", lidl_file, "t_summary")
\* if ah_summary_file: process_ah_summary(ah_summary_file)
TranslateSummary == TranslateFile("t_summary", ah_summary_file, "t_export")

\* df_unique.to_csv(export_filename, index=False): the id and the title of
\* each row of the export file, a missing id written as the empty field.
ExportFile(df_unique) ==
    [k \in DOMAIN df_unique |->
        [id |-> IF df_unique[k].id = None THEN "" ELSE df_unique[k].id,
         title |-> df_unique[k].title]]

\* if ah_export_file: process_ah_export(ah_export_file), on the file the
\* scrape wrote.  It raises before the memory is loaded, or it updates the
\* memory and then returns or raises when it writes the translated export.
TranslateExport ==
    /\ pcR = "t_export"
    /\ IF ah_export_file = NoFile
       THEN /\ TranslateStep(TRUE, AfterStage("translate"))
            /\ UNCHANGED cacheVars
       ELSE \/ /\ TranslateStep(FALSE, AfterStage("translate"))
               /\ UNCHANGED cacheVars
            \/ /\ \E ok \in BOOLEAN : TranslateStep(ok, AfterStage("translate"))
               /\ ProcessExport(ExportFile(export.rows))
    /\ UNCHANGED <<trVars, mapVars, ahVars>>

\* STEP 4: map_purchases.run_mapping_pipeline() is called; it runs by the
\* steps of the mapping engine.
MapStart ==
    /\ StartStage("map")
    /\ pcM = "idle"
    /\ pcM' = "start"
    /\ UNCHANGED <<sheet, worksheet, edits, db_choices, df_sheet, wratio, known_mappings,
                   to_process_indices, pos, updates, matches, row_log, runs, resolved>>
    /\ UNCHANGED <<cacheVars, trVars, ahVars>>

\* STEP 4: run_mapping_pipeline has returned, or an exception has left it.
RunMap ==
    /\ pcR = "map_running"
    /\ Returned
    /\ LET out == IF pcM = "raised" THEN "raise" ELSE "return"
       IN  /\ pcR' = IF out = "raise" THEN AfterFailure("map") ELSE AfterStage("map")
           /\ stage_log' = Append(stage_log, Event("map", out, <<>>))
    /\ UNCHANGED <<lidl_file, ah_export_file, ah_summary_file>>
    /\ UNCHANGED <<cacheVars, trVars, mapVars, ahVars>>

\* FINISH: "PIPELINE COMPLETED".
Finish ==
    /\ pcR = "finish"
    /\ pcR' = "done"
    /\ UNCHANGED <<lidl_file, ah_export_file, ah_summary_file, stage_log>>
    /\ UNCHANGED <<cacheVars, trVars, mapVars, ahVars>>

NextMain ==
    \/ LidlStart \/ RunLidl \/ AhStart \/ NextAh \/ RunAh \/ TranslateSkip
    \/ TranslateStart \/ TranslateLidl \/ TranslateSummary \/ TranslateExport
    \/ MapStart \/ NextMap \/ RunMap \/ Finish

\* main runs in one thread, which takes its next step as long as it has one.
SpecMain == InitMain /\ [][NextMain]_vars /\ WF_vars(NextMain)

\* The places of the log where a stage has the event.
Events(stage, event) ==
    {n \in DOMAIN stage_log :
        stage_log[n].stage = stage /\ stage_log[n].event = event}

\* The run is complete and every stage was started as the claim says: the two
\* scrapes and the mapping once each and in order, the translation once, before
\* the mapping, exactly when a scrape returned a file, and with the files the
\* scrapes returned.
C15_Completed ==
    /\ pcR = "done"
    /\ \A st \in {"lidl", "ah", "map"} : Cardinality(Events(st, "start")) = 1
    /\ \A a \in Events("lidl", "start") : \A b \in Events("ah", "start") : a < b
    /\ \A a \in Events("ah", "start") : \A b \in Events("map", "start") : a < b
    /\ Cardinality(Events("translate", "start"))
          = IF Events("lidl", "file") # {} \/ Events("ah", "file") # {} THEN 1 ELSE 0
    /\ \A n \in Events("translate", "start") :
          /\ \A b \in Events("map", "start") : n < b
          /\ stage_log[n].files =
                <<IF Events("lidl", "file") # {} THEN "lidl.csv" ELSE NoFile,
                  IF Events("ah", "file") # {} THEN "ah_export.csv" ELSE NoFile,
                  IF Events("ah", "file") # {} THEN "ah_summary.csv" ELSE NoFile>>

\* C15: whichever stages raise, every later stage is still started with the
\* outputs that succeeded and the run reaches its completion step.
C15_FailureTolerance == <>C15_Completed

\* A complete run in which the Lidl scrape, the translation and the mapping
\* all raised and the Albert Heijn scrape returned its files.
C15_Witness ==
    /\ pcR = "done"
    /\ Events("lidl", "raise") # {}
    /\ Events("ah", "file") # {}
    /\ Events("translate", "raise") # {}
    /\ Events("map", "raise") # {}

(***************************************************************************)
(* The scores of the candidate annotation.                                 *)
(***************************************************************************)
Scores == 0..1000

\* round(score): to the nearest integer, a half to the even one.
Rounded ==
    [x \in Scores |->
        IF x % 10 > 5 \/ (x % 10 = 5 /\ (x \div 10) % 2 = 1)
        THEN x \div 10 + 1 ELSE x \div 10]

\* The integer part of the score.
Truncated == [x \in Scores |-> x \div 10]

RECURSIVE Annotation(_, _, _)
\* The candidates from index k on, each as "id (n%)" with n the integer pct
\* gives its score, joined with "; ".
Annotation(ms, pct, k) ==
    IF k > Len(ms) THEN ""
    ELSE LET one == PyStr(ms[k].prod_id) \o " (" \o ToString(pct[ms[k].score]) \o "%)"
         IN  IF k = Len(ms) THEN one ELSE one \o "; " \o Annotation(ms, pct, k + 1)

\* The value staged for the ids cell of the row of the last pass.
StagedIds ==
    LET w == WritesFor(LastPass.idx)
    IN  w[Len(w)].value

\* C16 as stated: the annotation of a fuzzy resolution records each
\* qualifying candidate with its score rounded to an integer.
C16_AnnotationRounded ==
    (row_log # <<>> /\ LastPass.how = "fuzzy") =>
        StagedIds = Annotation(matches, Rounded, 1)

\* C16 amended: each qualifying candidate is recorded with the integer part
\* of its score.
C16_AnnotationTruncated ==
    (row_log # <<>> /\ LastPass.how = "fuzzy") =>
        StagedIds = Annotation(matches, Truncated, 1)

\* A fuzzy resolution with a candidate scoring 85.7 next to one scoring 85.
C16_Witness ==
    /\ row_log # <<>>
    /\ LastPass.how = "fuzzy"
    /\ \E a, b \in DOMAIN matches :
          /\ matches[a].score = 857
          /\ matches[b].score = 850
    /\ StagedIds = "12 (85%); 13 (85%)"

====
